---------------------------- MODULE Spec2Model ----------------------------
(***************************************************************************)
(* Model of the iter-transpose crate (src/src/lib.rs) and of the two       *)
(* loaders of examples/read_entries.rs.                                    *)
(*                                                                         *)
(* An Option<I> / Result<I, E> is a record with a tag; Option<I> has the   *)
(* field val when it is Some, Result<I, E> has val when Ok and err when    *)
(* Err.  An iterator over a Vec is a cursor [items, pos].  The adapters    *)
(* are the structs OptionTransposedIter { optional_iter } and              *)
(* ResultTransposedIter { result_iter }.  Iterator::next returns           *)
(* Option<Item>: None is end-of-sequence, Some(x) is the item x.           *)
(***************************************************************************)
EXTENDS Integers, Sequences, FiniteSets, TLC

\* ------------------------------------------------------------------ bounds
MaxLen == 3      \* longest wrapped sequence
MaxCalls == 5    \* most direct calls of next() on one adapter
MaxIds == 3      \* longest required list zipped with the adapter

Elems == {0, 1}          \* element type T (u64 values of the example)
Errs == {"e1", "e2"}     \* error type E

\* ------------------------------------------------- Option / Result values
None == [tag |-> "None"]
Some(v) == [tag |-> "Some", val |-> v]
Ok(v) == [tag |-> "Ok", val |-> v]
Err(e) == [tag |-> "Err", err |-> e]

is_some(x) == x.tag = "Some"
is_ok(x) == x.tag = "Ok"

\* ------------------------------------------------------- the wrapped Vecs
SeqsUpTo(n) == UNION {[1..k -> Elems] : k \in 0..n}
Seqs == SeqsUpTo(MaxLen)
OptionInputs == {None} \cup {Some(S) : S \in Seqs}
ResultInputs == {Ok(S) : S \in Seqs} \cup {Err(e) : e \in Errs}
IdLists == {[i \in 1..m |-> i] : m \in 0..MaxIds}

\* IntoIterator::into_iter of a Vec: a cursor at the first element.
into_iter(S) == [items |-> S, pos |-> 0]

\* Iterator::next of the wrapped cursor: the element under the cursor and the
\* cursor moved past it, or None with the cursor left where it is.
IterNext(c) ==
    IF c.pos < Len(c.items)
    THEN [ret |-> Some(c.items[c.pos + 1]), iter |-> [c EXCEPT !.pos = c.pos + 1]]
    ELSE [ret |-> None, iter |-> c]

\* --------------------------------------------------- transpose_into_iter
OptionTransposeIntoIter(w) ==
    [optional_iter |-> IF is_some(w) THEN Some(into_iter(w.val)) ELSE None]

ResultTransposeIntoIter(w) ==
    [result_iter |-> IF is_ok(w) THEN Ok(into_iter(w.val)) ELSE Err(w.err)]

IsOptionInput(w) == w.tag \in {"Some", "None"}
IsOptionIter(it) == "optional_iter" \in DOMAIN it

transpose_into_iter(w) ==
    IF IsOptionInput(w) THEN OptionTransposeIntoIter(w) ELSE ResultTransposeIntoIter(w)


\* ------------------------------------------------- <... as Iterator>::next
\* Every next operator returns [ret |-> the Option<Item> returned,
\*                              it  |-> the adapter after the call].

\* map_or(None, ..): a disengaged adapter signals end-of-sequence.
OptionNext_EndsWhenNone(it) ==
    IF is_some(it.optional_iter)
    THEN LET r == IterNext(it.optional_iter.val)
         IN  [ret |-> IF is_some(r.ret) THEN Some(Some(r.ret.val)) ELSE None,
              it  |-> [optional_iter |-> Some(r.iter)]]
    ELSE [ret |-> None, it |-> it]

\* the cursor is advanced twice per call, so every other element is lost.
OptionNext_Skips(it) ==
    IF is_some(it.optional_iter)
    THEN LET r == IterNext(IterNext(it.optional_iter.val).iter)
         IN  [ret |-> IF is_some(r.ret) THEN Some(Some(r.ret.val)) ELSE None,
              it  |-> [optional_iter |-> Some(r.iter)]]
    ELSE [ret |-> Some(None), it |-> it]

\* unwrap_or(None) in place of map(Some): an exhausted cursor yields the item
\* None instead of end-of-sequence.
OptionNext_NoneWhenExhausted(it) ==
    IF is_some(it.optional_iter)
    THEN LET r == IterNext(it.optional_iter.val)
         IN  [ret |-> IF is_some(r.ret) THEN Some(Some(r.ret.val)) ELSE Some(None),
              it  |-> [optional_iter |-> Some(r.iter)]]
    ELSE [ret |-> Some(None), it |-> it]

\* the exhausted cursor is dropped: optional_iter becomes None.
OptionNext_DropsExhausted(it) ==
    IF is_some(it.optional_iter)
    THEN LET r == IterNext(it.optional_iter.val)
         IN  [ret |-> IF is_some(r.ret) THEN Some(Some(r.ret.val)) ELSE None,
              it  |-> [optional_iter |-> IF is_some(r.ret) THEN Some(r.iter) ELSE None]]
    ELSE [ret |-> Some(None), it |-> it]

\* optional_iter.as_mut().map_or(Some(None), |iter| iter.next().map(Some))
OptionNext(it) ==
    IF is_some(it.optional_iter)
    THEN LET r == IterNext(it.optional_iter.val)
         IN  [ret |-> IF is_some(r.ret) THEN Some(Some(r.ret.val)) ELSE None,
              it  |-> [optional_iter |-> Some(r.iter)]]
    ELSE [ret |-> Some(None), it |-> it]

\* mem::take in place of clone: the first call moves the error out and leaves
\* the default error behind.
ResultNext_TakesErr(it) ==
    IF is_ok(it.result_iter)
    THEN LET r == IterNext(it.result_iter.val)
         IN  [ret |-> IF is_some(r.ret) THEN Some(Ok(r.ret.val)) ELSE None,
              it  |-> [result_iter |-> Ok(r.iter)]]
    ELSE [ret |-> Some(Err(it.result_iter.err)), it |-> [result_iter |-> Err("")]]

\* an exhausted cursor yields a failure carrying the default error.
ResultNext_ErrWhenExhausted(it) ==
    IF is_ok(it.result_iter)
    THEN LET r == IterNext(it.result_iter.val)
         IN  [ret |-> IF is_some(r.ret) THEN Some(Ok(r.ret.val)) ELSE Some(Err("")),
              it  |-> [result_iter |-> Ok(r.iter)]]
    ELSE [ret |-> Some(Err(it.result_iter.err)), it |-> it]

\* match result_iter.as_mut() { Ok(iter) => iter.next().map(Ok),
\*                              Err(err) => Some(Err(err.clone())) }
\* err.clone() takes &E: it returns a value equal to err and cannot write the
\* retained one.
ResultNext(it) ==
    IF is_ok(it.result_iter)
    THEN LET r == IterNext(it.result_iter.val)
         IN  [ret |-> IF is_some(r.ret) THEN Some(Ok(r.ret.val)) ELSE None,
              it  |-> [result_iter |-> Ok(r.iter)]]
    ELSE [ret |-> Some(Err(it.result_iter.err)), it |-> it]

\* ------------------------------------------- take_while(..) on the adapter
\* Iterator::take_while keeps the adapter and a flag.  Its next is
\*   if flag { None } else { let x = iter.next()?;
\*                           if pred(&x) { Some(x) } else { flag = true; None } }
\* Every operator returns [ret, it, flag, polled], polled being the number of
\* calls of the adapter's next it made.

\* the item that fails the predicate is still handed on (an inclusive
\* take_while), and only the call after it ends the sequence.
TakeWhileSomeNext_Inclusive(it, fl) ==
    IF fl THEN [ret |-> None, it |-> it, flag |-> TRUE, polled |-> 0]
    ELSE LET r == OptionNext(it)
         IN  IF ~is_some(r.ret)
             THEN [ret |-> None, it |-> r.it, flag |-> FALSE, polled |-> 1]
             ELSE [ret |-> r.ret, it |-> r.it, flag |-> ~is_some(r.ret.val), polled |-> 1]

\* take_while(Option::is_none): the predicate is negated.
TakeWhileSomeNext_Negated(it, fl) ==
    IF fl THEN [ret |-> None, it |-> it, flag |-> TRUE, polled |-> 0]
    ELSE LET r == OptionNext(it)
         IN  IF ~is_some(r.ret)
             THEN [ret |-> None, it |-> r.it, flag |-> FALSE, polled |-> 1]
             ELSE IF ~is_some(r.ret.val)
             THEN [ret |-> r.ret, it |-> r.it, flag |-> FALSE, polled |-> 1]
             ELSE [ret |-> None, it |-> r.it, flag |-> TRUE, polled |-> 1]

\* self.take_while(Option::is_some)
TakeWhileSomeNext(it, fl) ==
    IF fl THEN [ret |-> None, it |-> it, flag |-> TRUE, polled |-> 0]
    ELSE LET r == OptionNext(it)
         IN  IF ~is_some(r.ret)
             THEN [ret |-> None, it |-> r.it, flag |-> FALSE, polled |-> 1]
             ELSE IF is_some(r.ret.val)
             THEN [ret |-> r.ret, it |-> r.it, flag |-> FALSE, polled |-> 1]
             ELSE [ret |-> None, it |-> r.it, flag |-> TRUE, polled |-> 1]

\* no truncation: every item of the adapter is handed on.
TakeWhileOkNext_All(it, fl) ==
    IF fl THEN [ret |-> None, it |-> it, flag |-> TRUE, polled |-> 0]
    ELSE LET r == ResultNext(it)
         IN  [ret |-> r.ret, it |-> r.it, flag |-> FALSE, polled |-> 1]

\* self.take_while(Result::is_ok)
TakeWhileOkNext(it, fl) ==
    IF fl THEN [ret |-> None, it |-> it, flag |-> TRUE, polled |-> 0]
    ELSE LET r == ResultNext(it)
         IN  IF ~is_some(r.ret)
             THEN [ret |-> None, it |-> r.it, flag |-> FALSE, polled |-> 1]
             ELSE IF is_ok(r.ret.val)
             THEN [ret |-> r.ret, it |-> r.it, flag |-> FALSE, polled |-> 1]
             ELSE [ret |-> None, it |-> r.it, flag |-> TRUE, polled |-> 1]

\* --------------------------------------------- zip of a required list (a)
\* with the adapter (b): Iterator::zip asks a first, and b only when a gave
\* an element; it ends as soon as either ends.
ZipNext(a, b) ==
    LET x == IterNext(a)
    IN  IF ~is_some(x.ret)
        THEN [ret |-> None, a |-> x.iter, b |-> b, polled |-> 0]
        ELSE LET y == OptionNext(b)
             IN  IF ~is_some(y.ret)
                 THEN [ret |-> None, a |-> x.iter, b |-> y.it, polled |-> 1]
                 ELSE [ret |-> Some([name |-> x.ret.val, description |-> y.ret.val]),
                       a |-> x.iter, b |-> y.it, polled |-> 1]

\* ------------------------------------------------ examples/read_entries.rs
default_value == 0

\* Entry::new(id, value): value.unwrap_or_else(Self::default_value)
EntryNew(id, value) ==
    [id |-> id, value |-> IF is_some(value) THEN value.val ELSE default_value]

\* load_entries: one Entry for every id, with
\* values.as_mut().and_then(|values| values.next()) as its value.
RECURSIVE LoadEntriesFrom(_, _)
LoadEntriesFrom(lines, values) ==
    LET a == IterNext(lines)
    IN  IF ~is_some(a.ret) THEN <<>>
        ELSE IF is_some(values)
        THEN LET v == IterNext(values.val)
             IN  <<EntryNew(a.ret.val, v.ret)>> \o LoadEntriesFrom(a.iter, Some(v.iter))
        ELSE <<EntryNew(a.ret.val, None)>> \o LoadEntriesFrom(a.iter, None)

load_entries(idlist, values) ==
    LoadEntriesFrom(into_iter(idlist),
                    IF is_some(values) THEN Some(into_iter(values.val)) ELSE None)

\* ------------------------------------------------------------------- state
VARIABLES
    op,         \* what the caller does with the wrapper
    self,       \* the Option<I> / Result<I, E> the entry point is called on
    ids,        \* the required list of the zip
    iter,       \* the adapter transpose_into_iter returned
    out,        \* what the caller's direct calls of next() returned, in order
    flag,       \* the flag of the TakeWhile around the adapter
    ids_iter,   \* the cursor over ids inside the Zip
    collected,  \* the Vec that collect() is filling
    done,       \* collect() has returned (or the pipeline has panicked)
    panicked,   \* Option::unwrap / Result::unwrap was called on None / Err
    polls       \* calls of the adapter's next() made by the pipeline

vars == <<op, self, ids, iter, out, flag, ids_iter, collected, done, panicked, polls>>

Ops == {"next", "transpose", "unwrap_while", "zip"}

\* a collect() polling more often than this is cut off.
MaxPolls == MaxLen + 2

Init ==
    /\ op \in Ops
    /\ self \in IF op = "zip" THEN OptionInputs ELSE OptionInputs \cup ResultInputs
    /\ ids \in IF op = "zip" THEN IdLists ELSE {<<>>}
    /\ iter = transpose_into_iter(self)
    /\ out = <<>>
    /\ flag = FALSE
    /\ ids_iter = into_iter(ids)
    /\ collected = <<>>
    /\ done = FALSE
    /\ panicked = FALSE
    /\ polls = 0

\* --------------------------------------------------------------- actions
\* The caller calls OptionTransposedIter::next once.
OptionIterNext ==
    /\ op = "next"
    /\ IsOptionIter(iter)
    /\ Len(out) < MaxCalls
    /\ LET r == OptionNext(iter)
       IN  /\ iter' = r.it
           /\ out' = Append(out, r.ret)
    /\ polls' = polls + 1
    /\ UNCHANGED <<op, self, ids, flag, ids_iter, collected, done, panicked>>

\* The caller calls ResultTransposedIter::next once.
ResultIterNext ==
    /\ op = "next"
    /\ ~IsOptionIter(iter)
    /\ Len(out) < MaxCalls
    /\ LET r == ResultNext(iter)
       IN  /\ iter' = r.it
           /\ out' = Append(out, r.ret)
    /\ polls' = polls + 1
    /\ UNCHANGED <<op, self, ids, flag, ids_iter, collected, done, panicked>>

\* One round of collect() in <Option<I>>::transpose:
\* self.transpose_into_iter().take_while_some().collect::<T>()
OptionTranspose ==
    /\ op = "transpose"
    /\ IsOptionIter(iter)
    /\ ~done
    /\ polls < MaxPolls
    /\ LET r == TakeWhileSomeNext(iter, flag)
       IN  /\ iter' = r.it
           /\ flag' = r.flag
           /\ polls' = polls + r.polled
           /\ IF is_some(r.ret)
              THEN collected' = Append(collected, r.ret.val) /\ done' = FALSE
              ELSE collected' = collected /\ done' = TRUE
    /\ UNCHANGED <<op, self, ids, out, ids_iter, panicked>>

\* One round of collect() in <Result<I, E>>::transpose:
\* self.transpose_into_iter().take_while_ok().collect::<T>()
ResultTranspose ==
    /\ op = "transpose"
    /\ ~IsOptionIter(iter)
    /\ ~done
    /\ polls < MaxPolls
    /\ LET r == TakeWhileOkNext(iter, flag)
       IN  /\ iter' = r.it
           /\ flag' = r.flag
           /\ polls' = polls + r.polled
           /\ IF is_some(r.ret)
              THEN collected' = Append(collected, r.ret.val) /\ done' = FALSE
              ELSE collected' = collected /\ done' = TRUE
    /\ UNCHANGED <<op, self, ids, out, ids_iter, panicked>>

\* One round of collecting unwrap_while_some():
\* self.take_while(Option::is_some).map(Option::unwrap)
OptionUnwrapWhileSome ==
    /\ op = "unwrap_while"
    /\ IsOptionIter(iter)
    /\ ~done
    /\ polls < MaxPolls
    /\ LET r == TakeWhileSomeNext(iter, flag)
       IN  /\ iter' = r.it
           /\ flag' = r.flag
           /\ polls' = polls + r.polled
           /\ IF ~is_some(r.ret)
              THEN collected' = collected /\ done' = TRUE /\ panicked' = FALSE
              ELSE IF is_some(r.ret.val)
              THEN /\ collected' = Append(collected, r.ret.val.val)
                   /\ done' = FALSE /\ panicked' = FALSE
              ELSE collected' = collected /\ done' = TRUE /\ panicked' = TRUE
    /\ UNCHANGED <<op, self, ids, out, ids_iter>>

\* One round of collecting unwrap_while_ok():
\* self.take_while(Result::is_ok).map(Result::unwrap)
ResultUnwrapWhileOk ==
    /\ op = "unwrap_while"
    /\ ~IsOptionIter(iter)
    /\ ~done
    /\ polls < MaxPolls
    /\ LET r == TakeWhileOkNext(iter, flag)
       IN  /\ iter' = r.it
           /\ flag' = r.flag
           /\ polls' = polls + r.polled
           /\ IF ~is_some(r.ret)
              THEN collected' = collected /\ done' = TRUE /\ panicked' = FALSE
              ELSE IF is_ok(r.ret.val)
              THEN /\ collected' = Append(collected, r.ret.val.val)
                   /\ done' = FALSE /\ panicked' = FALSE
              ELSE collected' = collected /\ done' = TRUE /\ panicked' = TRUE
    /\ UNCHANGED <<op, self, ids, out, ids_iter>>

\* One round of collecting names.into_iter().zip(descriptions
\* .transpose_into_iter()).map(|(name, description)| Item { name, description })
ZipItems ==
    /\ op = "zip"
    /\ ~done
    /\ LET r == ZipNext(ids_iter, iter)
       IN  /\ ids_iter' = r.a
           /\ iter' = r.b
           /\ polls' = polls + r.polled
           /\ IF is_some(r.ret)
              THEN collected' = Append(collected, r.ret.val) /\ done' = FALSE
              ELSE collected' = collected /\ done' = TRUE
    /\ UNCHANGED <<op, self, ids, out, flag, panicked>>

Next ==
    \/ OptionIterNext
    \/ ResultIterNext
    \/ OptionTranspose
    \/ ResultTranspose
    \/ OptionUnwrapWhileSome
    \/ ResultUnwrapWhileOk
    \/ ZipItems

Spec == Init /\ [][Next]_vars

\* A call of transpose, of collect() or of next() runs to its return: the
\* crate is synchronous code with no suspension point.
FairSpec == Spec /\ WF_vars(Next)

\* load_entries_with_transpose maps every zipped pair to an Entry.
load_entries_with_transpose ==
    [i \in 1..Len(collected) |-> EntryNew(collected[i].name, collected[i].description)]

\* ------------------------------------------------------------ properties
Engaged == self.tag \in {"Some", "Ok"}
Discriminant(it) == IF IsOptionIter(it) THEN it.optional_iter.tag ELSE it.result_iter.tag
Cursor(it) == IF IsOptionIter(it) THEN it.optional_iter.val ELSE it.result_iter.val
Min(a, b) == IF a < b THEN a ELSE b

TypeOK ==
    /\ op \in Ops
    /\ self \in OptionInputs \cup ResultInputs
    /\ IsOptionIter(iter) = IsOptionInput(self)
    /\ flag \in BOOLEAN /\ done \in BOOLEAN /\ panicked \in BOOLEAN
    /\ polls \in 0..MaxCalls + MaxPolls
    /\ Len(out) <= MaxCalls

\* C1: the first n calls of next() on the adapter of Some(S) / Ok(S) return
\* Some(S[1]) .. Some(S[n]) / Ok(S[1]) .. Ok(S[n]) in the original order, and
\* call n+1 returns end-of-sequence.
C1_ElementsInOrderThenEnd ==
    (op = "next" /\ Engaged) =>
        LET S == self.val
            n == Len(S)
        IN  /\ \A i \in 1..Len(out) :
                  i <= n => out[i] = Some(IF self.tag = "Some" THEN Some(S[i]) ELSE Ok(S[i]))
            /\ Len(out) >= n + 1 => out[n + 1] = None

C1_Witness ==
    /\ op = "next" /\ self.tag = "Some"
    /\ Len(self.val) = MaxLen /\ self.val[1] # self.val[2]
    /\ Len(out) = MaxLen + 1

\* C2: every call of next() on the adapter of None returns the item None,
\* never end-of-sequence, and leaves the adapter as it was, so the next call
\* does the same.
C2_NoneYieldsNoneForever ==
    (op = "next" /\ self = None) =>
        /\ \A i \in 1..Len(out) : out[i] = Some(None)
        /\ OptionNext(iter) = [ret |-> Some(None), it |-> iter]

C2_Witness == op = "next" /\ self = None /\ Len(out) = MaxCalls

\* C3: every call of next() on the adapter of Err(e) returns the item Err(e),
\* never end-of-sequence, and the adapter still holds e after every call.
C3_ErrReplayedUnchanged ==
    (op = "next" /\ self.tag = "Err") =>
        /\ \A i \in 1..Len(out) : out[i] = Some(Err(self.err))
        /\ iter.result_iter = Err(self.err)

C3_Witness == op = "next" /\ self.tag = "Err" /\ Len(out) = MaxCalls

\* C4: transpose returns Some(S[1]) .. Some(S[n]) for Some(S), Ok(S[1]) ..
\* Ok(S[n]) for Ok(S), and the empty collection for None and for Err(e).
C4_TransposeResult ==
    (op = "transpose" /\ done) =>
        IF Engaged
        THEN /\ Len(collected) = Len(self.val)
             /\ \A i \in 1..Len(collected) :
                   collected[i] = IF self.tag = "Some" THEN Some(self.val[i]) ELSE Ok(self.val[i])
        ELSE collected = <<>>

C4_Witness ==
    /\ op = "transpose" /\ done
    /\ self.tag = "Some" /\ Len(self.val) = MaxLen
    /\ Len(collected) = MaxLen

\* C5: transpose returns after at most Len(S) + 1 calls of the adapter's next
\* for Some(S) / Ok(S), and after exactly one call for None / Err(e).
C5_TransposeTerminates ==
    /\ [](op = "transpose" => polls <= (IF Engaged THEN Len(self.val) + 1 ELSE 1))
    /\ [](op = "transpose" /\ done /\ ~Engaged => polls = 1)
    /\ (op = "transpose") ~> done

C5_Witness == op = "transpose" /\ done /\ self.tag = "Err" /\ polls = 1

\* C6 as stated: the zip gives one pair for every element of the required
\* list, whatever the wrapper, and load_entries_with_transpose returns what
\* load_entries returns.
C6_Original ==
    (op = "zip" /\ done) =>
        /\ Len(collected) = Len(ids)
        /\ \A i \in 1..Len(collected) :
              collected[i] = [name |-> ids[i],
                              description |-> IF is_some(self) THEN Some(self.val[i]) ELSE None]
        /\ load_entries_with_transpose = load_entries(ids, self)

\* C6 as amended: for Some(S) the zip gives one pair for each of the first
\* min(m, Len(S)) required elements, the i-th paired with Some(S[i]); for None
\* it gives one pair for each of the m required elements, paired with None;
\* load_entries_with_transpose returns the first Len(collected) entries of
\* load_entries, which is all of them when S is at least as long as the ids.
C6_ZipUpToShorter ==
    (op = "zip" /\ done) =>
        /\ Len(collected) = IF is_some(self) THEN Min(Len(ids), Len(self.val)) ELSE Len(ids)
        /\ \A i \in 1..Len(collected) :
              collected[i] = [name |-> ids[i],
                              description |-> IF is_some(self) THEN Some(self.val[i]) ELSE None]
        /\ load_entries_with_transpose = SubSeq(load_entries(ids, self), 1, Len(collected))
        /\ (is_some(self) => Len(self.val) >= Len(ids))
              => load_entries_with_transpose = load_entries(ids, self)

C6_Witness ==
    /\ op = "zip" /\ done
    /\ Len(ids) = MaxIds
    /\ is_some(self) /\ Len(self.val) < Len(ids)
    /\ Len(collected) >= 1

\* C7: unwrap_while_some / unwrap_while_ok yield S[1] .. S[n] for Some(S) /
\* Ok(S) and nothing for None / Err(e), and unwrap is never called on a None
\* or an Err item.
C7_UnwrapWhileResult ==
    (op = "unwrap_while") =>
        /\ ~panicked
        /\ Len(collected) <= (IF Engaged THEN Len(self.val) ELSE 0)
        /\ \A i \in 1..Len(collected) : collected[i] = self.val[i]
        /\ done => Len(collected) = (IF Engaged THEN Len(self.val) ELSE 0)

C7_Witness ==
    /\ op = "unwrap_while" /\ done
    /\ self.tag = "Ok" /\ Len(self.val) = MaxLen
    /\ collected = self.val

\* C8 as stated: the adapter of Some(S) returns Some(S[i]) for the first n
\* calls and the item None on every call after them.
C8_Original ==
    (op = "next" /\ self.tag = "Some") =>
        \A i \in 1..Len(out) :
            out[i] = IF i <= Len(self.val) THEN Some(Some(self.val[i])) ELSE Some(None)

\* C8 as amended: the adapter of Some(S) returns Some(S[i]) for the first n
\* calls and end-of-sequence, not the item None, on every call after them.
C8_ActiveEndsAfterExhaustion ==
    (op = "next" /\ self.tag = "Some") =>
        \A i \in 1..Len(out) :
            out[i] = IF i <= Len(self.val) THEN Some(Some(self.val[i])) ELSE None

C8_Witness ==
    /\ op = "next" /\ self.tag = "Some"
    /\ Len(self.val) >= 1
    /\ Len(out) >= Len(self.val) + 2

\* C9: the adapter of Ok(S) never returns an Err item: every call returns an
\* Ok item or end-of-sequence, and every call after the n-th returns
\* end-of-sequence.
C9_OkNeverYieldsErr ==
    (op = "next" /\ self.tag = "Ok") =>
        \A i \in 1..Len(out) :
            /\ out[i] = None \/ is_ok(out[i].val)
            /\ i > Len(self.val) => out[i] = None

C9_Witness ==
    /\ op = "next" /\ self.tag = "Ok"
    /\ Len(self.val) >= 1
    /\ Len(out) = MaxCalls /\ Len(out) >= Len(self.val) + 2

\* What one step may do to the adapter.
C10_Step ==
    /\ IsOptionIter(iter') = IsOptionIter(iter)
    /\ Discriminant(iter') = Discriminant(iter)
    /\ IF Discriminant(iter) \in {"Some", "Ok"}
       THEN /\ Cursor(iter').items = Cursor(iter).items
            /\ Cursor(iter').pos \in {Cursor(iter).pos, Cursor(iter).pos + 1}
       ELSE iter' = iter

\* C10: no step changes the adapter's discriminant; a step leaves a
\* disengaged adapter as it is and moves the cursor of an active one by at
\* most one element over the same elements.
C10_DiscriminantNeverChanges == [][C10_Step]_vars

C10_Witness ==
    /\ op = "next" /\ self.tag = "Some"
    /\ Len(out) = MaxCalls
    /\ is_some(iter.optional_iter)
    /\ iter.optional_iter.val.pos = Len(self.val)
    /\ Len(self.val) < MaxCalls - 1

=============================================================================
